---------------------------- MODULE Spec2Model ----------------------------
(***************************************************************************)
(* Verification model of the hidden-stories / echogo single-page apps.     *)
(*                                                                         *)
(*   Part G  the useGeolocation hook, in its two versions                  *)
(*           (hidden-stories-app and echogo-app)                           *)
(*   Part A  the story-generation flow of App with fetchLocalStory and     *)
(*           fetchMusicForStory                                            *)
(*   Part R  the StoryReader component and its text-to-speech requests     *)
(*   Part V  getAllVoices and its cache of the voice list                  *)
(*                                                                         *)
(* Each part has its own specification; the variables of the other parts   *)
(* keep their initial values under it.                                     *)
(***************************************************************************)
EXTENDS Integers, Sequences, FiniteSets, TLC

(***************************************************************************)
(* Bounds of the model                                                     *)
(***************************************************************************)
\* the clock advances in steps of TickMs milliseconds
TickMs == 1000
\* number of getCurrentLocation calls in one behaviour
MaxCalls == 2
\* number of generation flows started in one behaviour
MaxFlows == 2
\* number of getAllVoices calls in one behaviour
MaxVoiceCalls == 3
\* the narrations a StoryReader starts by itself are counted up to this number
MaxAutoStarts == 2

\* JavaScript null
Null == "null"
\* lastRequestTime: number | null; NoTime stands for null
NoTime == -1

(***************************************************************************)
(* Part G: useGeolocation                                                  *)
(***************************************************************************)
VARIABLES
  geoCfg,           \* version of the hook, device, options, navigator.geolocation
  now,              \* Date.now()
  position,         \* state.position
  error,            \* state.error
  isLocating,       \* state.isLocating
  lastRequestTime,  \* state.lastRequestTime
  retryCount,       \* retryCount.current (hidden-stories version)
  timers,           \* armed watchdog timers, one per getCurrentLocation call
  primaryReqs,      \* main getCurrentPosition requests awaiting their callback
  cachedReqs,       \* cached-position requests awaiting their callback
  fallbackReqs,     \* fallback getCurrentPosition requests awaiting their callback
  calls,            \* number of getCurrentLocation calls so far
  fallbackIssued    \* fallback requests issued since the last getCurrentLocation call

geoVars == <<geoCfg, now, position, error, isLocating, lastRequestTime, retryCount,
             timers, primaryReqs, cachedReqs, fallbackReqs, calls,
             fallbackIssued>>

(***************************************************************************)
(* Part A: App, fetchLocalStory, fetchMusicForStory                        *)
(***************************************************************************)
VARIABLES
  appCfg,            \* which App, which fetchLocalStory, which fetchMusicForStory
  selectedLocation,  \* App state (hidden-stories): the stored location
  story,             \* App state: story
  music,             \* App state: music
  appLoading,        \* App state: isLoading
  autoPlayStory,     \* App state (hidden-stories App.tsx): autoPlayStory
  flows,             \* the generation flows started so far, in order
  inflight,          \* HTTP requests awaiting their response
  autoPlayTimers     \* armed setTimeout(() => setAutoPlayStory(true), 2000)

(***************************************************************************)
(* Part R: StoryReader                                                     *)
(***************************************************************************)
VARIABLES
  reader,      \* the mounted StoryReader: its props and its useState values
  tts,         \* textToSpeech requests awaiting their response
  simTimers,   \* armed setTimeout(() => setIsPlaying(false), 10000) of the reader
  stopButtonPressed,  \* window.stopButtonPressed
  appPlaying,  \* App state (App.tsx): isPlaying
  userVoice,   \* history: the voice the user selected last, Null before
  ttsFailed    \* history: a narration request failed since the user last asked

readerVars == <<reader, tts, simTimers, stopButtonPressed, appPlaying, userVoice,
               ttsFailed>>

appVars == <<appCfg, selectedLocation, story, music, appLoading, autoPlayStory,
             flows, inflight, autoPlayTimers, readerVars>>

(***************************************************************************)
(* Part V: getAllVoices and its cache                                      *)
(***************************************************************************)
VARIABLES
  voicesCache,  \* the module variable voicesCache
  voiceReqs,    \* getVoices requests awaiting their response
  voiceCalls,   \* number of getAllVoices calls so far
  voiceFirst,   \* history: the list the first successful fetch returned
  voiceLast     \* history: the getAllVoices call that returned last

voiceVars == <<voicesCache, voiceReqs, voiceCalls, voiceFirst, voiceLast>>

vars == <<geoVars, appVars, voiceVars>>

\* positions the browser may deliver
Positions == {"locA"}

\* ---- error messages of the hook ----
ErrUnsupported == "Geolocation is not supported by your browser"
ErrWatchdog == "Location request timed out. Please try selecting a location on the map instead."
ErrMaxRetries == "Unable to determine your location after multiple attempts. Please select a location on the map instead."
ErrFallback == "Unable to determine your location. Please select a location on the map instead."
ErrCoreLocation == "Unable to determine your precise location. Please try selecting a location on the map instead."
ErrUnavailable == "Location information is unavailable. Please try selecting a location on the map."
ErrDenied == "Location permission denied. Please enable location services."
ErrTimeout == "Location request timed out. Please try again or select a location on the map."
ErrOther == "Error getting location"
ErrUnknown == "Unknown location error occurred"
ErrEchoLocation == "Unable to determine your location. Please try selecting a location on the map instead."
ErrEchoUnavailable == "Location information is unavailable. Please try again later."
ErrEchoTimeout == "Location request timed out. Please try again."

\* ---- GeolocationPositionError ----
PERMISSION_DENIED == 1
POSITION_UNAVAILABLE == 2
TIMEOUT == 3
ErrorCodes == {PERMISSION_DENIED, POSITION_UNAVAILABLE, TIMEOUT}

\* error.message, by the substrings the hook searches it for (empty: the
\* message is the empty string). The third is Safari's "CoreLocationProvider:
\* CoreLocation framework reported a kCLErrorLocationUnknown failure."
ErrorMessages ==
  { [empty |-> TRUE,  has |-> {}],
    [empty |-> FALSE, has |-> {}],
    [empty |-> FALSE, has |-> {"kCLErrorLocationUnknown", "CoreLocationProvider",
                               "CoreLocation framework"}],
    [empty |-> FALSE, has |-> {"location"}] }

\* String.prototype.includes
Includes(message, needle) == needle \in message.has

\* ---- options and defaults ----
Versions == {"hidden", "echogo"}

\* the options objects callers pass (a missing field is an option not
\* supplied); the echogo version has no maxRetries option
OptionChoices(version) ==
  IF version = "hidden"
  THEN { [autoLocateOnMount |-> TRUE],
         [autoLocateOnMount |-> TRUE, maxRetries |-> 1],
         [autoLocateOnMount |-> TRUE, maxRetries |-> 0],
         [autoLocateOnMount |-> TRUE, enableHighAccuracy |-> TRUE, timeout |-> 2000,
          maxRetries |-> 1] }
  ELSE { [autoLocateOnMount |-> TRUE],
         [autoLocateOnMount |-> TRUE, enableHighAccuracy |-> TRUE, timeout |-> 2000] }

\* ---- the devices the page may run on ----
Devices ==
  { "iphoneSafari", "iphoneChrome", "ipadSafari", "macSafari", "macChrome",
    "macFirefox", "windowsChrome", "androidChrome", "windowsPhoneIE" }

\* navigator.userAgent, as the sequence of its words that the hook's regular
\* expressions can tell apart ("Mac" is the one in "Mac OS X"; iPadOS Safari
\* sends the user agent of Safari on a Mac; Internet Explorer on Windows
\* Phone 8.1 names Android, iPhone, Mac OS X and Safari)
UserAgent(device) ==
  CASE device = "iphoneSafari" -> <<"iPhone", "Mac", "AppleWebKit", "Version", "Mobile", "Safari">>
    [] device = "iphoneChrome" -> <<"iPhone", "Mac", "AppleWebKit", "CriOS", "Mobile", "Safari">>
    [] device = "ipadSafari" -> <<"Macintosh", "Mac", "AppleWebKit", "Version", "Safari">>
    [] device = "macSafari" -> <<"Macintosh", "Mac", "AppleWebKit", "Version", "Safari">>
    [] device = "macChrome" -> <<"Macintosh", "Mac", "AppleWebKit", "Chrome", "Safari">>
    [] device = "macFirefox" -> <<"Macintosh", "Mac", "Gecko", "Firefox">>
    [] device = "windowsChrome" -> <<"Windows", "AppleWebKit", "Chrome", "Safari">>
    [] device = "androidChrome" -> <<"Linux", "Android", "AppleWebKit", "Chrome", "Mobile", "Safari">>
    [] OTHER -> <<"Windows Phone", "Android", "Trident", "IEMobile", "iPhone", "Mac",
                  "AppleWebKit", "Mobile", "Safari">>

\* window.MSStream exists in Internet Explorer only
HasMSStream(device) == device = "windowsPhoneIE"

\* what the device is
Platform(device) ==
  CASE device \in {"iphoneSafari", "iphoneChrome", "ipadSafari"} -> "ios"
    [] device \in {"macSafari", "macChrome", "macFirefox"} -> "macos"
    [] device = "windowsChrome" -> "windows"
    [] device = "androidChrome" -> "android"
    [] OTHER -> "windowsphone"

Browser(device) ==
  CASE device \in {"iphoneSafari", "ipadSafari", "macSafari"} -> "safari"
    [] device \in {"iphoneChrome", "macChrome", "windowsChrome", "androidChrome"} -> "chrome"
    [] device = "macFirefox" -> "firefox"
    [] OTHER -> "ie"

\* String.prototype.toLowerCase of a word, for the case-insensitive tests
LowerCase(word) ==
  CASE word = "Safari" -> "safari"
    [] word = "Chrome" -> "chrome"
    [] word = "Android" -> "android"
    [] word = "iPhone" -> "iphone"
    [] word = "iPad" -> "ipad"
    [] word = "iPod" -> "ipod"
    [] OTHER -> word

\* /iPad|iPhone|iPod/.test(userAgent)
MatchesIDevice(ua) == \E i \in DOMAIN ua : ua[i] \in {"iPad", "iPhone", "iPod"}

\* /iP(ad|hone|od)/i.test(userAgent)
MatchesIDeviceAnyCase(ua) ==
  \E i \in DOMAIN ua : LowerCase(ua[i]) \in {"ipad", "iphone", "ipod"}

\* /Mac/.test(userAgent)
MatchesMac(ua) == \E i \in DOMAIN ua : ua[i] \in {"Macintosh", "Mac"}

\* /^((?!chrome|android).)*safari/i.test(userAgent): "safari" occurs with no
\* "chrome" and no "android" before it
MatchesSafari(ua) ==
  \E i \in DOMAIN ua :
    /\ LowerCase(ua[i]) = "safari"
    /\ \A j \in 1..(i - 1) : LowerCase(ua[j]) \notin {"chrome", "android"}

\* isAppleDevice as each version of the hook computes it
IsAppleDevice(version, device) ==
  IF version = "hidden"
  THEN LET isIOS == MatchesIDevice(UserAgent(device)) /\ ~HasMSStream(device)
           isMacOS == MatchesMac(UserAgent(device)) /\ ~isIOS
           isSafari == MatchesSafari(UserAgent(device))
       IN  isIOS \/ (isMacOS /\ isSafari)
  ELSE MatchesSafari(UserAgent(device)) \/ MatchesIDeviceAnyCase(UserAgent(device))

\* the devices useGeolocation is followed on in full
GeoDevices == {"iphoneSafari", "windowsChrome"}

GeoConfigs ==
  UNION { [version : {v}, device : GeoDevices, options : OptionChoices(v),
           hasGeolocation : BOOLEAN] : v \in Versions }

\* the options under which the defaults of the hidden-stories hook are
\* followed; false and 0 are supplied values too
DefaultsOptionChoices ==
  { [autoLocateOnMount |-> TRUE],
    [autoLocateOnMount |-> TRUE, timeout |-> 2000],
    [autoLocateOnMount |-> TRUE, enableHighAccuracy |-> FALSE, maximumAge |-> 0],
    [autoLocateOnMount |-> TRUE, enableHighAccuracy |-> TRUE, timeout |-> 0,
     maximumAge |-> 60000] }

DefaultsConfigs ==
  [version : {"hidden"}, device : Devices, options : DefaultsOptionChoices,
   hasGeolocation : {TRUE}]

isAppleDevice == IsAppleDevice(geoCfg.version, geoCfg.device)

\* variant: `options.name || default`, which replaces false and 0 as well
OptOrDefault(options, name, default) ==
  IF name \in DOMAIN options /\ options[name] /= (IF name = "enableHighAccuracy" THEN FALSE ELSE 0)
  THEN options[name]
  ELSE default

\* destructuring with a default value
Opt(options, name, default) ==
  IF name \in DOMAIN options THEN options[name] ELSE default

DefaultMaxRetries == 2

enableHighAccuracy ==
  Opt(geoCfg.options, "enableHighAccuracy", ~isAppleDevice)

timeout ==
  Opt(geoCfg.options, "timeout",
      IF geoCfg.version = "hidden"
      THEN (IF isAppleDevice THEN 30000 ELSE 10000)
      ELSE (IF isAppleDevice THEN 20000 ELSE 10000))

maximumAge ==
  Opt(geoCfg.options, "maximumAge",
      IF geoCfg.version = "hidden"
      THEN (IF isAppleDevice THEN 120000 ELSE 0)
      ELSE (IF isAppleDevice THEN 60000 ELSE 0))

maxRetries == Opt(geoCfg.options, "maxRetries", DefaultMaxRetries)

\* the PositionOptions of the main request
PrimaryOptions ==
  [enableHighAccuracy |-> enableHighAccuracy, timeout |-> timeout, maximumAge |-> maximumAge]

\* the watchdog is set to timeout + 1000 ms
WatchdogBuffer == 1000
WatchdogDelay == timeout + WatchdogBuffer

\* requests within ThrottleMs of the last one are meant to be dropped
ThrottleMs == 2000

\* getCurrentLocation is memoized by useCallback on
\* [enableHighAccuracy, timeout, maximumAge, (maxRetries, isAppleDevice)].
\* None of these changes between renders, so the callback in use is the one
\* created in the first render and the `state` it reads is the initial state.
MemoLastRequestTime == NoTime

\* `x && ...` on a number | null: null and 0 are falsy
Truthy(t) == t /= NoTime /\ t /= 0

\* the throttle test of getCurrentLocation
Throttled == Truthy(MemoLastRequestTime) /\ now - MemoLastRequestTime < ThrottleMs

\* the hook's state after construction
GeoStart ==
  /\ now = TickMs
  /\ position = Null
  /\ error = Null
  /\ isLocating = FALSE
  /\ lastRequestTime = NoTime
  /\ retryCount = 0
  /\ timers = {}
  /\ primaryReqs = {}
  /\ cachedReqs = {}
  /\ fallbackReqs = {}
  /\ calls = 0
  /\ fallbackIssued = 0

\* ---- setState: the four fields of the hook's state ----
SetState(p, e, l, t) ==
  /\ position' = p
  /\ error' = e
  /\ isLocating' = l
  /\ lastRequestTime' = t

StateUnchanged == UNCHANGED <<position, error, isLocating, lastRequestTime>>

\* clearTimeout(timeoutId) of the call with number id
ClearTimeout(id) == {t \in timers : t.id /= id}

\* The throttle window of the last request is open and a call may still come.
InThrottleWindow ==
  /\ calls < MaxCalls
  /\ lastRequestTime /= NoTime
  /\ now - lastRequestTime < ThrottleMs

\* The clock is followed while something depends on it: inside an open
\* throttle window it advances by TickMs; otherwise, and also from inside
\* the window, it advances to the time an armed watchdog is due.
TickSteps ==
  (IF InThrottleWindow THEN {TickMs} ELSE {})
    \cup {t.due - now : t \in {u \in timers : now < u.due}}

\* time passes
Tick ==
  \E d \in TickSteps :
    /\ now' = now + d
    /\ UNCHANGED <<geoCfg, position, error, isLocating, lastRequestTime, retryCount,
                   timers, primaryReqs, cachedReqs, fallbackReqs, calls,
                   fallbackIssued>>
    /\ UNCHANGED <<appVars, voiceVars>>

\* navigator.geolocation.getCurrentPosition of tryFallbackGeolocation
\* (id: the call whose closure issues it; via: the callback that issues it)
IssueFallback(id, via, requestTime) ==
  /\ fallbackIssued' = fallbackIssued + 1
  /\ fallbackReqs' = fallbackReqs \cup {[id |-> id, via |-> via, requestTime |-> requestTime]}

NoFallback == UNCHANGED <<fallbackIssued, fallbackReqs>>

\* tryFallbackGeolocation(requestTime), hidden-stories version.
HiddenTryFallback(id, via, requestTime) ==
  /\ retryCount' = retryCount + 1
  /\ IF retryCount + 1 > maxRetries
     THEN /\ SetState(position, ErrMaxRetries, FALSE, lastRequestTime)
          /\ NoFallback
     ELSE /\ StateUnchanged
          /\ IssueFallback(id, via, requestTime)

\* tryFallbackGeolocation(requestTime), echogo version: no retry counter
EchoTryFallback(id, via, requestTime) ==
  /\ IssueFallback(id, via, requestTime)
  /\ UNCHANGED retryCount

\* The callers of getCurrentLocation: the mount effect of the hook
\* (autoLocateOnMount) and the LOCATE button of MapSelector, which is
\* disabled while isLocating.
CallerMayCall == ~isLocating

\* variant: the request time is recorded before navigator.geolocation is tested
UnsupportedAfterRecordingTime ==
  /\ SetState(position, ErrUnsupported, FALSE, now)
  /\ UNCHANGED <<timers, primaryReqs, cachedReqs, fallbackIssued>>

\* getCurrentLocation() without navigator.geolocation: the error is set and
\* the call returns
Unsupported ==
  /\ SetState(position, ErrUnsupported, FALSE, lastRequestTime)
  /\ UNCHANGED <<timers, primaryReqs, cachedReqs, fallbackIssued>>

\* getCurrentLocation()
GetCurrentLocation ==
  /\ calls < MaxCalls
  /\ CallerMayCall
  /\ calls' = calls + 1
  /\ retryCount' = IF geoCfg.version = "hidden" THEN 0 ELSE retryCount
  /\ UNCHANGED <<appVars, voiceVars>> /\ UNCHANGED <<geoCfg, now, fallbackReqs>>
  /\ IF Throttled
     THEN /\ StateUnchanged
          /\ UNCHANGED <<timers, primaryReqs, cachedReqs, fallbackIssued>>
     ELSE IF ~geoCfg.hasGeolocation
     THEN Unsupported
     ELSE /\ SetState(position, Null, TRUE, now)
          /\ timers' = timers \cup
               {[id |-> calls + 1, due |-> now + WatchdogDelay, requestTime |-> now]}
          /\ cachedReqs' = IF geoCfg.version = "hidden" /\ isAppleDevice
                           THEN cachedReqs \cup {[id |-> calls + 1]}
                           ELSE cachedReqs
          /\ primaryReqs' = primaryReqs \cup
               {[id |-> calls + 1, requestTime |-> now, options |-> PrimaryOptions]}
          /\ fallbackIssued' = 0

\* variant: the watchdog reports the error but leaves isLocating as it is
WatchdogGiveUpKeepsLocating ==
  SetState(position, ErrWatchdog, isLocating, lastRequestTime)

\* the watchdog gives up: no fallback is tried
WatchdogGiveUp ==
  SetState(position, ErrWatchdog, FALSE, lastRequestTime)

\* variant: the watchdog reports the timeout whether or not the hook is locating
WatchdogIdleReportsTimeout ==
  /\ SetState(position, ErrWatchdog, FALSE, lastRequestTime)
  /\ NoFallback
  /\ UNCHANGED retryCount

\* the watchdog finds prev.isLocating false: return prev
WatchdogIdle ==
  /\ StateUnchanged
  /\ NoFallback
  /\ UNCHANGED retryCount

\* the watchdog of a call fires, timeout + 1000 ms after the call or later
Watchdog ==
  \E t \in timers :
    /\ now >= t.due
    /\ timers' = timers \ {t}
    /\ UNCHANGED <<appVars, voiceVars>> /\ UNCHANGED <<geoCfg, now, primaryReqs, cachedReqs, calls>>
    /\ IF ~isLocating
       THEN WatchdogIdle
       ELSE IF geoCfg.version = "hidden"
       THEN IF enableHighAccuracy /\ retryCount < maxRetries
            THEN HiddenTryFallback(t.id, "watchdog", t.requestTime)
            ELSE /\ WatchdogGiveUp
                 /\ NoFallback
                 /\ UNCHANGED retryCount
       ELSE IF enableHighAccuracy
            THEN /\ EchoTryFallback(t.id, "watchdog", t.requestTime)
                 /\ StateUnchanged
            ELSE /\ WatchdogGiveUp
                 /\ NoFallback
                 /\ UNCHANGED retryCount

\* success callback of a fallback request
FallbackSuccess ==
  \E r \in fallbackReqs, p \in Positions :
    /\ fallbackReqs' = fallbackReqs \ {r}
    /\ retryCount' = IF geoCfg.version = "hidden" THEN 0 ELSE retryCount
    /\ SetState(p, Null, FALSE, r.requestTime)
    /\ UNCHANGED <<appVars, voiceVars>> /\ UNCHANGED <<geoCfg, now, timers, primaryReqs, cachedReqs, calls,
                   fallbackIssued>>

\* error callback of a fallback request
FallbackError ==
  \E r \in fallbackReqs :
    /\ fallbackReqs' = fallbackReqs \ {r}
    /\ SetState(position, ErrFallback, FALSE, lastRequestTime)
    /\ UNCHANGED <<appVars, voiceVars>> /\ UNCHANGED <<geoCfg, now, retryCount, timers, primaryReqs, cachedReqs, calls, fallbackIssued>>

\* success callback of the cached-position request (Apple devices, hidden-stories)
CachedSuccess ==
  \E r \in cachedReqs, p \in Positions :
    /\ cachedReqs' = cachedReqs \ {r}
    /\ timers' = ClearTimeout(r.id)
    /\ SetState(p, Null, FALSE, lastRequestTime)
    /\ UNCHANGED <<appVars, voiceVars>> /\ UNCHANGED <<geoCfg, now, retryCount, primaryReqs, fallbackReqs, calls, fallbackIssued>>

\* error callback of the cached-position request: ignored
CachedError ==
  \E r \in cachedReqs :
    /\ cachedReqs' = cachedReqs \ {r}
    /\ StateUnchanged
    /\ UNCHANGED <<appVars, voiceVars>> /\ UNCHANGED <<geoCfg, now, retryCount, timers, primaryReqs, fallbackReqs, calls, fallbackIssued>>

\* success callback of the main request
PrimarySuccess ==
  \E r \in primaryReqs, p \in Positions :
    /\ primaryReqs' = primaryReqs \ {r}
    /\ timers' = ClearTimeout(r.id)
    /\ retryCount' = IF geoCfg.version = "hidden" THEN 0 ELSE retryCount
    /\ SetState(p, Null, FALSE, lastRequestTime)
    /\ UNCHANGED <<appVars, voiceVars>> /\ UNCHANGED <<geoCfg, now, cachedReqs, fallbackReqs, calls,
                   fallbackIssued>>

\* hidden-stories: the message shown for a primary error
HiddenErrorMessage(code, message) ==
  IF ~message.empty /\ (Includes(message, "kCLErrorLocationUnknown")
                         \/ Includes(message, "CoreLocationProvider"))
  THEN ErrCoreLocation
  ELSE IF code = POSITION_UNAVAILABLE THEN ErrUnavailable
  ELSE IF code = PERMISSION_DENIED THEN ErrDenied
  ELSE IF code = TIMEOUT THEN ErrTimeout
  ELSE ErrOther

\* hidden-stories: shouldTryFallback of a primary error
HiddenShouldTryFallback(code, message) ==
  IF ~message.empty /\ (Includes(message, "kCLErrorLocationUnknown")
                         \/ Includes(message, "CoreLocationProvider"))
  THEN retryCount < maxRetries
  ELSE IF code = POSITION_UNAVAILABLE THEN retryCount < maxRetries
  ELSE IF code = PERMISSION_DENIED THEN FALSE
  ELSE retryCount < maxRetries

\* error callback of the main request r, hidden-stories version, called with
\* an error of the given code and message
HiddenPrimaryErrorWith(r, code, message) ==
  /\ geoCfg.version = "hidden"
  /\ r \in primaryReqs
  /\ primaryReqs' = primaryReqs \ {r}
  /\ timers' = ClearTimeout(r.id)
  /\ UNCHANGED <<appVars, voiceVars>> /\ UNCHANGED <<geoCfg, now, cachedReqs, calls>>
  /\ IF HiddenShouldTryFallback(code, message)
     THEN HiddenTryFallback(r.id, "primary", r.requestTime)
     ELSE /\ SetState(Null, HiddenErrorMessage(code, message), FALSE, lastRequestTime)
          /\ NoFallback
          /\ UNCHANGED retryCount

\* error callback of the main request, hidden-stories version
HiddenPrimaryError ==
  \E r \in primaryReqs, code \in ErrorCodes, message \in ErrorMessages :
    HiddenPrimaryErrorWith(r, code, message)

\* echogo: is the primary error taken for a CoreLocation / location error
EchoIsLocationError(code, message) ==
  /\ ~message.empty
  /\ \/ Includes(message, "kCLErrorLocationUnknown")
     \/ Includes(message, "CoreLocationProvider")
     \/ Includes(message, "CoreLocation framework")
     \/ Includes(message, "location")
     \/ code = POSITION_UNAVAILABLE

\* echogo: the message shown for a primary error
EchoErrorMessage(code, message) ==
  IF EchoIsLocationError(code, message) THEN ErrEchoLocation
  ELSE IF code = PERMISSION_DENIED THEN ErrDenied
  ELSE IF code = POSITION_UNAVAILABLE THEN ErrEchoUnavailable
  ELSE IF code = TIMEOUT THEN ErrEchoTimeout
  ELSE ErrOther

\* error callback of the main request, echogo version
EchoPrimaryError ==
  /\ geoCfg.version = "echogo"
  /\ \E r \in primaryReqs, code \in ErrorCodes, message \in ErrorMessages :
       /\ primaryReqs' = primaryReqs \ {r}
       /\ timers' = ClearTimeout(r.id)
       /\ UNCHANGED <<appVars, voiceVars>> /\ UNCHANGED <<geoCfg, now, cachedReqs, calls>>
       /\ IF EchoIsLocationError(code, message)
          THEN EchoTryFallback(r.id, "primary", r.requestTime)
          ELSE NoFallback /\ UNCHANGED retryCount
       /\ SetState(Null, EchoErrorMessage(code, message), FALSE, lastRequestTime)

\* the hidden-stories version of the hook
HiddenGeoNext ==
  \/ Tick
  \/ GetCurrentLocation
  \/ Watchdog
  \/ FallbackSuccess
  \/ FallbackError
  \/ CachedSuccess
  \/ CachedError
  \/ PrimarySuccess
  \/ HiddenPrimaryError

GeoNext ==
  \/ Tick
  \/ GetCurrentLocation
  \/ Watchdog
  \/ FallbackSuccess
  \/ FallbackError
  \/ CachedSuccess
  \/ CachedError
  \/ PrimarySuccess
  \/ HiddenPrimaryError
  \/ EchoPrimaryError

(***************************************************************************)
(* Part A: the generation flow of App, fetchLocalStory, fetchMusicForStory *)
(***************************************************************************)

\* ---- the three Apps, the two fetchLocalStory, the two fetchMusicForStory ----
\* "echogo":  echogo-app App, the map click starts the flow
\* "hidden3": hidden-stories App with the visible StoryReader
\* "hidden":  hidden-stories App.tsx with the hidden, keyed StoryReader
Apps == {"echogo", "hidden3", "hidden"}

\* "theme": theme request, then query request; "direct": query request only
MusicVersions == {"theme", "direct"}

\* each App imports the fetchLocalStory of its own application
StoriesOf(app) == IF app = "echogo" THEN "echogo" ELSE "hidden"

\* the network between the browser and the story, music and video services:
\* "flaky": a request may fail; "reliable": every request succeeds
Networks == {"flaky", "reliable"}

AppConfigs ==
  { [app |-> a, stories |-> StoriesOf(a), music |-> m, net |-> n] :
      a \in Apps, m \in MusicVersions, n \in Networks }

\* null is Null where the value is a name or an id, and None where it is an
\* object or a text given as a sequence: <<>> or <<object>>
None == <<>>
Some(v) == <<v>>
IsSome(x) == x /= <<>>
The(x) == x[1]

\* ---- the world the requests talk about ----
Locations == {"cph", "nyc"}

DEFAULT_ADDRESS == "Stenhuggervej 4, Copenhagen, Denmark"

\* the address MapSelector's reverse geocoding finds for a location
AddressOf(loc) == IF loc = "cph" THEN DEFAULT_ADDRESS ELSE "Broadway 1, New York, USA"

\* did MapSelector's reverse geocoding of a clicked location find an address
MapFoundAddress(loc) == loc = "cph"

\* the names that denote a place at the given coordinates
PlacesAt(loc) ==
  IF loc = "cph" THEN {DEFAULT_ADDRESS, "Copenhagen", "Vesterbro"}
  ELSE {"Broadway 1, New York, USA", "New York", "Manhattan"}

\* the address object a Nominatim reverse lookup of the coordinates may return
NominatimAddresses(loc) ==
  IF loc = "cph"
  THEN { [city |-> "Copenhagen", town |-> Null, village |-> Null],
         [city |-> Null, town |-> Null, village |-> "Vesterbro"] }
  ELSE { [city |-> Null, town |-> "Manhattan", village |-> Null],
         [city |-> Null, town |-> Null, village |-> Null] }

\* the data of a Nominatim response: with an address object, or without one
NominatimResponses(loc) ==
  {[address |-> Some(a)] : a \in NominatimAddresses(loc)} \cup {[address |-> None]}

\* a || b of JavaScript, on values that are Null or non-empty
Or(a, b) == IF a /= Null THEN a ELSE b

\* city || town || village || "this location"
CityOf(address) == Or(address.city, Or(address.town, Or(address.village, "this location")))

NoFacts == "No interesting facts found at this location."

\* choices[0].message.content of the story request
StoryContents == {"storyA"}

\* choices[0].message.content of the theme and of the query request, as
\* sequences of characters (" " stands for any white space)
ThemeContents == { <<" ", "Jazz">> }
QueryContents == { <<" ", "folk", " ", "songs", " ">> }

IsSpace(c) == c = " "

RECURSIVE TrimStart(_)
TrimStart(s) ==
  IF s /= <<>> /\ IsSpace(Head(s)) THEN TrimStart(Tail(s)) ELSE s

RECURSIVE TrimEnd(_)
TrimEnd(s) ==
  IF s /= <<>> /\ IsSpace(s[Len(s)]) THEN TrimEnd(SubSeq(s, 1, Len(s) - 1)) ELSE s

\* String.prototype.trim
Trim(s) == TrimEnd(TrimStart(s))

\* items of the YouTube search response: none, a video, an item without videoId
VideoItems ==
  { <<>>,
    << [videoId |-> "vid1", title |-> "Title 1"] >>,
    << [videoId |-> Null, title |-> "Title 2"] >> }

\* `https://www.youtube.com/watch?v=${videoId}`
WatchUrl(videoId) == <<"https://www.youtube.com/watch?v=", videoId>>

\* variant: the URL is built without looking at videoId
VideoUrlAlways(videoId) == WatchUrl(videoId)

\* videoId ? `https://www.youtube.com/watch?v=${videoId}` : null
VideoUrlOf(videoId) == IF videoId /= Null THEN WatchUrl(videoId) ELSE None

\* items[0]?.id?.videoId || null
VideoIdOf(items) == IF items = <<>> THEN Null ELSE items[1].videoId

\* videoItem?.snippet?.title || null
VideoTitleOf(items) == IF items = <<>> THEN Null ELSE items[1].title

\* q of the video search
SearchQ(searchQuery) ==
  IF appCfg.music = "theme" THEN searchQuery \o <<" ", "music">> ELSE searchQuery

\* what the try block of fetchMusicForStory returns
MusicResult(theme, searchQuery, items) ==
  [ theme |-> theme, searchQuery |-> searchQuery, videoId |-> VideoIdOf(items),
    videoUrl |-> VideoUrlOf(VideoIdOf(items)),
    videoTitle |-> IF appCfg.music = "direct" THEN VideoTitleOf(items) ELSE Null ]

\* what the catch block of fetchMusicForStory returns
MusicCatchResult ==
  [ theme |-> IF appCfg.music = "theme" THEN <<"Unknown">> ELSE None,
    searchQuery |-> None, videoId |-> Null, videoUrl |-> None, videoTitle |-> Null ]

\* the settlement of an async function: resolved with a value, or rejected
Resolved(v) == [rejected |-> FALSE, value |-> v]
Rejected == [rejected |-> TRUE, value |-> Null]

\* variant: the catch block of fetchLocalStory rethrows
LocalStoryRethrows == Rejected

\* fetchLocalStory, catch block
LocalStoryCatch == Resolved(NoFacts)

\* fetchMusicForStory, catch block
MusicCatch == Resolved(MusicCatchResult)

\* ---- requests and flows ----
Kinds == {"geocode", "story", "theme", "query", "video"}

NoPayload == [loc |-> Null, place |-> Null, story |-> Null, theme |-> None, q |-> None]

\* a flow before its first request
NewFlow(loc, address) ==
  [ pc |-> "start", loc |-> loc, address |-> address, place |-> Null,
    localStory |-> Null, storyArg |-> Null, theme |-> None, searchQuery |-> None,
    sent |-> [k \in Kinds |-> 0], failed |-> {}, noItem |-> FALSE, result |-> None,
    rejected |-> {} ]

\* the flow record once it has issued a request of the given kind
Sending(fr, kind) ==
  [fr EXCEPT !.pc = kind, !.sent = [fr.sent EXCEPT ![kind] = fr.sent[kind] + 1]]

Request(f, kind, payload) == [flow |-> f, kind |-> kind, payload |-> payload]

\* the requests of a kind that wait for their response
Pending(kind) == {r \in inflight : r.kind = kind}

\* the App state after construction
AppStart ==
  /\ selectedLocation = None
  /\ story = Null
  /\ music = None
  /\ appLoading = FALSE
  /\ autoPlayStory = FALSE
  /\ flows = <<>>
  /\ inflight = {}
  /\ autoPlayTimers = 0

\* of a flow that finished earlier only what it returned is kept once another
\* flow finishes; its other locals are gone
Forgotten(fr) ==
  IF fr.pc \in {"done", "gone"}
  THEN [NewFlow(Null, Null) EXCEPT !.pc = "gone", !.result = fr.result,
                                   !.noItem = fr.noItem, !.rejected = fr.rejected]
  ELSE fr

\* the flows once flow f has finished with the record fr
Finished(f, fr) ==
  [g \in DOMAIN flows |-> IF g = f THEN fr ELSE Forgotten(flows[g])]

\* variant: no finally block
AppFinallyKeepsLoading == appLoading' = appLoading

\* finally { setIsLoading(false) }
AppFinally == appLoading' = FALSE

\* the story handed to fetchMusicForStory: the local variable localStory
MusicStoryArg(localStory) == localStory

\* fetchLocalStory rejected or fetchMusicForStory rejected: catch, then finally
AppCatch(f, fr, settled, callee) ==
  /\ flows' = Finished(f, [fr EXCEPT !.pc = "done", !.rejected = {callee}])
  /\ inflight' = inflight \ {settled}
  /\ AppFinally
  /\ UNCHANGED <<story, music, autoPlayStory, autoPlayTimers>>

\* first request of fetchMusicForStory(story)
FirstMusicKind == IF appCfg.music = "theme" THEN "theme" ELSE "query"

\* const localStory = await fetchLocalStory(...) has settled with outcome o:
\* setStory(localStory), then fetchMusicForStory(localStory) up to its first await
AfterLocalStory(f, fr, settled, o) ==
  IF o.rejected
  THEN AppCatch(f, fr, settled, "fetchLocalStory")
  ELSE /\ story' = o.value
       /\ flows' = [flows EXCEPT ![f] =
            Sending([fr EXCEPT !.localStory = o.value,
                               !.storyArg = MusicStoryArg(o.value)], FirstMusicKind)]
       /\ inflight' = (inflight \ {settled}) \cup
            {Request(f, FirstMusicKind, [NoPayload EXCEPT !.story = MusicStoryArg(o.value)])}
       /\ UNCHANGED <<music, appLoading, autoPlayStory, autoPlayTimers>>

\* const musicResponse = await fetchMusicForStory(localStory) has settled with
\* outcome o: setMusic, (App.tsx: autoplay flags and the 2 s timer), finally
AfterMusic(f, fr, settled, o) ==
  IF o.rejected
  THEN AppCatch(f, fr, settled, "fetchMusicForStory")
  ELSE /\ music' = Some(o.value)
       /\ flows' = Finished(f, [fr EXCEPT !.pc = "done", !.result = Some(o.value)])
       /\ inflight' = inflight \ {settled}
       /\ autoPlayTimers' = IF appCfg.app = "hidden" THEN autoPlayTimers + 1 ELSE autoPlayTimers
       /\ AppFinally
       /\ UNCHANGED <<story, autoPlayStory>>

\* an HTTP request fails, or its response lacks the field the code reads
Failing(fr, kind) == [fr EXCEPT !.failed = fr.failed \cup {kind}]
(***************************************************************************)
(* Part R: StoryReader, the narration requests, the voice                  *)
(***************************************************************************)

\* popularVoices
Rachel == "21m00Tcm4TlvDq8ikWAM"
Sam == "yoZ06aMxZJJ28mfd3POQ"
Voices == {Rachel, Sam}

ErrPlay == "Failed to play audio. Please try again."
ErrSpeech == "Failed to generate speech. Please try again."
ErrDemo == "API key issue. Demo mode active."
ErrResume == "Failed to resume audio. Please try again."

\* "v4": the forwardRef StoryReader that App.tsx renders hidden and keyed;
\* "v5": the StoryReader with the VoiceSelector
ReaderVersion == IF appCfg.app = "hidden" THEN "v4" ELSE "v5"

\* no StoryReader is mounted
NoReader ==
  [ mounted |-> FALSE, story |-> Null, autoPlay |-> FALSE, isLoading |-> FALSE,
    isPlaying |-> FALSE, error |-> Null, audioUrl |-> Null,
    selectedVoiceId |-> Rachel, audible |-> FALSE, autoStarts |-> 0 ]

\* textToSpeech(story, {voiceId}) in flight. live: the instance that issued it
\* is still mounted; viaApp: App's handlePlayPause awaits it; afterFailure and
\* wanted record, at the time of the request, whether a narration request had
\* failed since the user last asked for narration, and the voice the user chose
TtsRequest(voice, text, live, viaApp, failedBefore) ==
  [ voice |-> voice, text |-> text, live |-> live, viaApp |-> viaApp,
    afterFailure |-> failedBefore, wanted |-> userVoice ]

\* the reader, its requests and its simulated-play timers, as one value
Cur ==
  [ reader |-> reader, tts |-> tts, simTimers |-> simTimers,
    stopPressed |-> stopButtonPressed ]

\* the requests of an instance that unmounts: their response changes nothing
\* any more, unless App's handlePlayPause still awaits it
Orphaned(S) == {[r EXCEPT !.live = FALSE] : r \in {x \in S : x.viaApp}}

\* a StoryReader just mounted with the given props: the useState initial
\* values; autoStarts counts the narrations its auto-play effect has started
FreshReader(s, a) ==
  [ mounted |-> TRUE, story |-> s, autoPlay |-> a, isLoading |-> FALSE,
    isPlaying |-> FALSE, error |-> Null, audioUrl |-> Null,
    selectedVoiceId |-> Rachel, audible |-> FALSE, autoStarts |-> 0 ]

\* playAudioWithRetry on the existing audio, in handlePlay
PlayExisting(rs, playOk) ==
  IF playOk
  THEN [rs EXCEPT !.reader.isPlaying = TRUE, !.reader.audible = TRUE]
  ELSE IF ReaderVersion = "v5"
  THEN [rs EXCEPT !.reader.error = ErrPlay]
  ELSE [rs EXCEPT !.reader.error = ErrPlay, !.reader.isPlaying = TRUE,
                  !.simTimers = rs.simTimers + 1]

\* handlePlay() up to its first await
HandlePlay(rs, playOk, viaApp, failedBefore) ==
  IF ~rs.reader.mounted \/ rs.reader.story = Null \/ rs.reader.isLoading
  THEN rs
  ELSE IF rs.reader.audioUrl /= Null
  THEN PlayExisting(rs, playOk)
  ELSE [rs EXCEPT !.reader.isLoading = TRUE, !.reader.error = Null,
                  !.tts = rs.tts \cup {TtsRequest(rs.reader.selectedVoiceId, rs.reader.story,
                                                  TRUE, viaApp, failedBefore)}]

\* autoStarts + 1, counted up to MaxAutoStarts
OneMoreAutoStart(n) == IF n < MaxAutoStarts THEN n + 1 ELSE n

\* the auto-play effect, run on mount and after story, autoPlay, isPlaying or
\* isLoading changed; the forwardRef StoryReader also reads
\* window.stopButtonPressed
AutoPlayEffect(rs, playOk, failedBefore) ==
  IF rs.reader.mounted /\ rs.reader.autoPlay /\ rs.reader.story /= Null
     /\ ~rs.reader.isPlaying /\ ~rs.reader.isLoading
     /\ ~(ReaderVersion = "v4" /\ rs.stopPressed)
  THEN HandlePlay([rs EXCEPT !.reader.autoStarts = OneMoreAutoStart(rs.reader.autoStarts)],
                  playOk, FALSE, failedBefore)
  ELSE rs

\* the StoryReader is unmounted and, when there is a story s, mounted anew with
\* autoPlay a, and its auto-play effect runs (twice: two renders of App follow
\* each other)
Remount(rs, s, a, twice, failedBefore) ==
  IF s = Null
  THEN [ reader |-> NoReader, tts |-> Orphaned(rs.tts), simTimers |-> 0,
         stopPressed |-> rs.stopPressed ]
  ELSE AutoPlayEffect([ reader |-> FreshReader(s, a), tts |-> Orphaned(rs.tts),
                        simTimers |-> 0, stopPressed |-> rs.stopPressed ],
                      TRUE, failedBefore)

\* reader, tts and simTimers take the given value
Becomes(rs) ==
  /\ reader' = rs.reader
  /\ tts' = rs.tts
  /\ simTimers' = rs.simTimers
  /\ stopButtonPressed' = rs.stopPressed

\* ---- what a render of App does to the StoryReader ----
AppStateChanged ==
  <<selectedLocation', story', music', appLoading', autoPlayStory'>>
    /= <<selectedLocation, story, music, appLoading, autoPlayStory>>

\* App.tsx: useEffect(() => { if (autoPlayStory && story && !isLoading)
\* setIsPlaying(true) }, [autoPlayStory, story, isLoading])
AppAutoPlayEffectFires ==
  /\ <<autoPlayStory', story', appLoading'>> /= <<autoPlayStory, story, appLoading>>
  /\ autoPlayStory' /\ story' /= Null /\ ~appLoading'

\* the App state has been set by a handler; userTriggered: the handler is the
\* user asking for a generation
Render(userTriggered) ==
  /\ ttsFailed' = IF userTriggered THEN FALSE ELSE ttsFailed
  /\ userVoice' = userVoice
  /\ IF appCfg.app = "echogo"
     THEN UNCHANGED <<reader, tts, simTimers, stopButtonPressed, appPlaying>>
     ELSE IF appCfg.app = "hidden3"
     THEN /\ appPlaying' = appPlaying
          /\ IF story' /= Null /\ ~appLoading'
             THEN IF reader.mounted
                  THEN Becomes([Cur EXCEPT !.reader.story = story'])
                  ELSE Becomes(Remount(Cur, story', FALSE, FALSE, ttsFailed'))
             ELSE IF reader.mounted
                  THEN Becomes(Remount(Cur, Null, FALSE, FALSE, ttsFailed'))
                  ELSE UNCHANGED <<reader, tts, simTimers, stopButtonPressed>>
     ELSE /\ appPlaying' = IF AppAutoPlayEffectFires THEN TRUE ELSE appPlaying
          /\ IF AppStateChanged
             THEN Becomes(Remount(Cur, story', autoPlayStory', appPlaying' /= appPlaying,
                                  ttsFailed'))
             ELSE UNCHANGED <<reader, tts, simTimers, stopButtonPressed>>

\* the reader's state after construction of the App
ReaderStart ==
  /\ reader = NoReader
  /\ tts = {}
  /\ simTimers = 0
  /\ stopButtonPressed = FALSE
  /\ appPlaying = FALSE
  /\ userVoice = Null
  /\ ttsFailed = FALSE

\* an HTTP response: success with its data, or failure
Ok(data) == [ok |-> TRUE, data |-> Some(data)]
Failure == [ok |-> FALSE, data |-> None]
Data(resp) == The(resp.data)
Responses(datas) ==
  {Ok(d) : d \in datas} \cup (IF appCfg.net = "flaky" THEN {Failure} ELSE {})

\* hidden-stories fetchLocalStory: let locationName = address || DEFAULT_ADDRESS
HiddenLocationName(loc, address) == Or(address, DEFAULT_ADDRESS)

\* the story request of fetchLocalStory, about the named place
StoryRequest(f, fr, place) ==
  [ fr |-> Sending([fr EXCEPT !.place = place], "story"),
    req |-> Request(f, "story", [NoPayload EXCEPT !.place = place]) ]

\* fetchLocalStory(lat, lng, address) up to its first await
BeginLocalStory(f, loc, address) ==
  IF appCfg.stories = "echogo" /\ address = Null
  THEN [ fr |-> Sending(NewFlow(loc, address), "geocode"),
         req |-> Request(f, "geocode", [NoPayload EXCEPT !.loc = loc]) ]
  ELSE IF appCfg.stories = "echogo"
  THEN StoryRequest(f, NewFlow(loc, address), address)
  ELSE StoryRequest(f, NewFlow(loc, address), HiddenLocationName(loc, address))

\* setIsLoading(true); setStory(null); setMusic(null); fetchLocalStory(...)
BeginFlow(loc, address) ==
  /\ Len(flows) < MaxFlows
  /\ appLoading' = TRUE
  /\ story' = Null
  /\ music' = None
  /\ flows' = Append(flows, BeginLocalStory(Len(flows) + 1, loc, address).fr)
  /\ inflight' = inflight \cup {BeginLocalStory(Len(flows) + 1, loc, address).req}

\* the address MapSelector passes with a location: address || undefined
MapAddresses(loc) == IF MapFoundAddress(loc) THEN {AddressOf(loc)} ELSE {Null}

\* hidden-stories handleLocationSelect: store the location, clear story and music
HandleLocationSelect ==
  /\ appCfg.app /= "echogo"
  /\ \E loc \in Locations : \E address \in MapAddresses(loc) :
       /\ selectedLocation' = Some([loc |-> loc, address |-> address])
       /\ selectedLocation' /= selectedLocation
  /\ story' = Null
  /\ music' = None
  /\ UNCHANGED <<appCfg, appLoading, autoPlayStory, flows, inflight, autoPlayTimers>>
  /\ Render(FALSE)
  /\ UNCHANGED <<geoVars, voiceVars>>

\* echogo handleLocationSelect: the map click runs the flow
EchoHandleLocationSelect ==
  /\ appCfg.app = "echogo"
  /\ \E loc \in Locations : \E address \in MapAddresses(loc) : BeginFlow(loc, address)
  /\ UNCHANGED <<appCfg, selectedLocation, autoPlayStory, autoPlayTimers>>
  /\ Render(TRUE)
  /\ UNCHANGED <<geoVars, voiceVars>>

\* hidden-stories handleGenerateStory, behind the Generate button
HandleGenerateStory ==
  /\ appCfg.app /= "echogo"
  /\ IsSome(selectedLocation)
  /\ ~appLoading
  /\ BeginFlow(The(selectedLocation).loc, The(selectedLocation).address)
  /\ autoPlayStory' = FALSE
  /\ UNCHANGED <<appCfg, selectedLocation, autoPlayTimers>>
  /\ Render(TRUE)
  /\ UNCHANGED <<geoVars, voiceVars>>

\* the Nominatim reverse lookup of echogo's fetchLocalStory settles
GeocodeSettles ==
  \E r \in Pending("geocode") :
    \E resp \in Responses(NominatimResponses(r.payload.loc)) :
      /\ IF resp.ok /\ IsSome(Data(resp).address)
         THEN /\ flows' = [flows EXCEPT ![r.flow] =
                   StoryRequest(r.flow, flows[r.flow], CityOf(The(Data(resp).address))).fr]
              /\ inflight' = (inflight \ {r}) \cup
                   {StoryRequest(r.flow, flows[r.flow], CityOf(The(Data(resp).address))).req}
              /\ UNCHANGED <<story, music, appLoading, autoPlayStory, autoPlayTimers>>
         ELSE AfterLocalStory(r.flow, Failing(flows[r.flow], "geocode"), r, LocalStoryCatch)
      /\ UNCHANGED <<appCfg, selectedLocation>>
      /\ Render(FALSE)
      /\ UNCHANGED <<geoVars, voiceVars>>

\* the story request of fetchLocalStory settles
StorySettles ==
  \E r \in Pending("story") : \E resp \in Responses(StoryContents) :
    /\ IF resp.ok
       THEN AfterLocalStory(r.flow, flows[r.flow], r, Resolved(Data(resp)))
       ELSE AfterLocalStory(r.flow, Failing(flows[r.flow], "story"), r, LocalStoryCatch)
    /\ UNCHANGED <<appCfg, selectedLocation>>
    /\ Render(FALSE)
    /\ UNCHANGED <<geoVars, voiceVars>>

\* the theme request of fetchMusicForStory (fetchMusic.ts) settles
ThemeSettles ==
  \E r \in Pending("theme") : \E resp \in Responses(ThemeContents) :
    /\ IF resp.ok
       THEN /\ flows' = [flows EXCEPT ![r.flow] =
                 Sending([flows[r.flow] EXCEPT !.theme = Trim(Data(resp))], "query")]
            /\ inflight' = (inflight \ {r}) \cup
                 {Request(r.flow, "query",
                    [NoPayload EXCEPT !.story = r.payload.story, !.theme = Trim(Data(resp))])}
            /\ UNCHANGED <<story, music, appLoading, autoPlayStory, autoPlayTimers>>
       ELSE AfterMusic(r.flow, Failing(flows[r.flow], "theme"), r, MusicCatch)
    /\ UNCHANGED <<appCfg, selectedLocation>>
    /\ Render(FALSE)
    /\ UNCHANGED <<geoVars, voiceVars>>

\* variant: the failure of the query request is swallowed and the video
\* search goes ahead with an empty query
QueryFailureSearchesAnyway(f, fr, r) ==
  /\ flows' = [flows EXCEPT ![f] = Sending(fr, "video")]
  /\ inflight' = (inflight \ {r}) \cup
       {Request(f, "video", [NoPayload EXCEPT !.q = SearchQ(<<>>)])}
  /\ UNCHANGED <<story, music, appLoading, autoPlayStory, autoPlayTimers>>

\* after the query request has failed: the catch block, no video search
QueryFailure(f, fr, r) == AfterMusic(f, fr, r, MusicCatch)

\* the search-query request of fetchMusicForStory settles
QuerySettles ==
  \E r \in Pending("query") : \E resp \in Responses(QueryContents) :
    /\ IF resp.ok
       THEN /\ flows' = [flows EXCEPT ![r.flow] =
                 Sending([flows[r.flow] EXCEPT !.searchQuery = Trim(Data(resp))], "video")]
            /\ inflight' = (inflight \ {r}) \cup
                 {Request(r.flow, "video", [NoPayload EXCEPT !.q = SearchQ(Trim(Data(resp)))])}
            /\ UNCHANGED <<story, music, appLoading, autoPlayStory, autoPlayTimers>>
       ELSE QueryFailure(r.flow, Failing(flows[r.flow], "query"), r)
    /\ UNCHANGED <<appCfg, selectedLocation>>
    /\ Render(FALSE)
    /\ UNCHANGED <<geoVars, voiceVars>>

\* the YouTube search of fetchMusicForStory settles
VideoSettles ==
  \E r \in Pending("video") : \E resp \in Responses(VideoItems) :
    /\ IF resp.ok
       THEN AfterMusic(r.flow, [flows[r.flow] EXCEPT !.noItem = (Data(resp) = <<>>)], r,
              Resolved(MusicResult(flows[r.flow].theme, flows[r.flow].searchQuery, Data(resp))))
       ELSE AfterMusic(r.flow, Failing(flows[r.flow], "video"), r, MusicCatch)
    /\ UNCHANGED <<appCfg, selectedLocation>>
    /\ Render(FALSE)
    /\ UNCHANGED <<geoVars, voiceVars>>

\* the 2 s timer of handleGenerateStory (App.tsx): setAutoPlayStory(true)
AutoPlayTimer ==
  /\ autoPlayTimers > 0
  /\ autoPlayTimers' = autoPlayTimers - 1
  /\ autoPlayStory' = TRUE
  /\ UNCHANGED <<appCfg, selectedLocation, story, music, appLoading, flows, inflight>>
  /\ Render(FALSE)
  /\ UNCHANGED <<geoVars, voiceVars>>

AppNext ==
  \/ HandleLocationSelect
  \/ EchoHandleLocationSelect
  \/ HandleGenerateStory
  \/ GeocodeSettles
  \/ StorySettles
  \/ ThemeSettles
  \/ QuerySettles
  \/ VideoSettles
  \/ AutoPlayTimer

\* ---- the reader's own events ----
FlowUnchanged ==
  UNCHANGED <<appCfg, selectedLocation, story, music, appLoading, autoPlayStory,
              flows, inflight, autoPlayTimers>>

\* handleResume(), reached from App's play button when the reader has audio
HandleResume(rs, playOk) ==
  IF playOk
  THEN [rs EXCEPT !.reader.isPlaying = TRUE, !.reader.audible = TRUE]
  ELSE [rs EXCEPT !.reader.error = ErrResume]

\* App.tsx after its await in handlePlayPause: setIsPlaying(true), and the
\* render that follows remounts the keyed StoryReader
AppSetPlaying(rs, failedBefore) ==
  /\ appPlaying' = TRUE
  /\ IF appPlaying
     THEN Becomes(rs)
     ELSE Becomes(Remount(rs, story, autoPlayStory, FALSE, failedBefore))

\* the visible StoryReader: the LISTEN button calls handlePlay
PressListen ==
  /\ appCfg.app = "hidden3"
  /\ reader.mounted /\ ~reader.isLoading /\ ~reader.isPlaying
  /\ \E playOk \in BOOLEAN : Becomes(HandlePlay(Cur, playOk, FALSE, FALSE))
  /\ ttsFailed' = FALSE
  /\ UNCHANGED <<appPlaying, userVoice>>
  /\ FlowUnchanged
  /\ UNCHANGED <<geoVars, voiceVars>>

\* App.tsx handlePlayPause while not playing: handleResume or handlePlay of
\* the reader, awaited, then setIsPlaying(true)
PressPlay ==
  /\ appCfg.app = "hidden"
  /\ story /= Null /\ ~appPlaying
  /\ ttsFailed' = FALSE
  /\ \E playOk \in BOOLEAN :
       IF ~reader.mounted
       THEN AppSetPlaying(Cur, FALSE)
       ELSE IF reader.audioUrl /= Null
       THEN AppSetPlaying(HandleResume(Cur, playOk), FALSE)
       ELSE IF HandlePlay(Cur, playOk, TRUE, FALSE).tts /= tts
       THEN Becomes(HandlePlay(Cur, playOk, TRUE, FALSE)) /\ UNCHANGED appPlaying
       ELSE AppSetPlaying(HandlePlay(Cur, playOk, TRUE, FALSE), FALSE)
  /\ UNCHANGED userVoice
  /\ FlowUnchanged
  /\ UNCHANGED <<geoVars, voiceVars>>

\* the reader's state when its textToSpeech request has settled
AfterTts(rs, ok, playOk) ==
  IF ok /\ playOk
  THEN [rs EXCEPT !.reader.audioUrl = "blob", !.reader.isPlaying = TRUE,
                  !.reader.audible = TRUE, !.reader.isLoading = FALSE]
  ELSE IF ok /\ ReaderVersion = "v5"
  THEN [rs EXCEPT !.reader.audioUrl = "blob", !.reader.error = ErrPlay,
                  !.reader.isLoading = FALSE]
  ELSE IF ok
  THEN [rs EXCEPT !.reader.audioUrl = "blob", !.reader.error = ErrPlay,
                  !.reader.isPlaying = TRUE, !.simTimers = rs.simTimers + 1,
                  !.reader.isLoading = FALSE]
  ELSE IF ReaderVersion = "v5"
  THEN [rs EXCEPT !.reader.error = ErrSpeech, !.reader.isLoading = FALSE]
  ELSE [rs EXCEPT !.reader.error = ErrDemo, !.reader.isPlaying = TRUE,
                  !.simTimers = rs.simTimers + 1, !.reader.isLoading = FALSE]

\* a textToSpeech request settles
TtsSettles ==
  \E r \in tts, ok \in BOOLEAN, playOk \in BOOLEAN :
    /\ ttsFailed' = (ttsFailed \/ ~ok)
    /\ IF r.viaApp
       THEN AppSetPlaying(
              IF r.live
              THEN AutoPlayEffect(AfterTts([Cur EXCEPT !.tts = tts \ {r}], ok, playOk),
                                  playOk, ttsFailed')
              ELSE [Cur EXCEPT !.tts = tts \ {r}],
              ttsFailed')
       ELSE /\ Becomes(IF r.live
                       THEN AutoPlayEffect(AfterTts([Cur EXCEPT !.tts = tts \ {r}], ok, playOk),
                                           playOk, ttsFailed')
                       ELSE [Cur EXCEPT !.tts = tts \ {r}])
            /\ UNCHANGED appPlaying
    /\ UNCHANGED userVoice
    /\ FlowUnchanged
    /\ UNCHANGED <<geoVars, voiceVars>>

\* setTimeout(() => setIsPlaying(false), 10000) of the simulated playback fires
SimulatedPlayEnds ==
  /\ simTimers > 0
  /\ \E playOk \in BOOLEAN :
       Becomes(IF reader.isPlaying
               THEN AutoPlayEffect([Cur EXCEPT !.reader.isPlaying = FALSE,
                                               !.simTimers = simTimers - 1],
                                   playOk, ttsFailed)
               ELSE [Cur EXCEPT !.simTimers = simTimers - 1])
  /\ UNCHANGED <<appPlaying, userVoice, ttsFailed>>
  /\ FlowUnchanged
  /\ UNCHANGED <<geoVars, voiceVars>>

\* the audio element's 'ended' event: handleEnded
AudioEnded ==
  /\ reader.mounted /\ reader.audible
  /\ \E playOk \in BOOLEAN :
       IF ReaderVersion = "v4" /\ appPlaying
       THEN /\ appPlaying' = FALSE
            /\ Becomes(Remount(Cur, story, autoPlayStory, FALSE, ttsFailed))
       ELSE /\ Becomes(AutoPlayEffect([Cur EXCEPT !.reader.isPlaying = FALSE,
                                                  !.reader.audible = FALSE],
                                      playOk, ttsFailed))
            /\ UNCHANGED appPlaying
  /\ UNCHANGED <<userVoice, ttsFailed>>
  /\ FlowUnchanged
  /\ UNCHANGED <<geoVars, voiceVars>>

\* handleStop() of the StoryReader, and the auto-play effect that runs because
\* isPlaying has changed
HandleStop(rs, playOk, failedBefore) ==
  AutoPlayEffect([rs EXCEPT !.reader.isPlaying = FALSE, !.reader.audible = FALSE],
                 playOk, failedBefore)

\* the visible StoryReader: the STOP button calls handleStop
PressStop ==
  /\ appCfg.app = "hidden3"
  /\ reader.mounted /\ reader.isPlaying /\ ~reader.isLoading
  /\ \E playOk \in BOOLEAN : Becomes(HandleStop(Cur, playOk, ttsFailed))
  /\ UNCHANGED <<appPlaying, userVoice, ttsFailed>>
  /\ FlowUnchanged
  /\ UNCHANGED <<geoVars, voiceVars>>

\* handleVoiceSelect(voiceId) of the StoryReader
HandleVoiceSelect(rs, voiceId) ==
  IF voiceId /= rs.reader.selectedVoiceId
  THEN [rs EXCEPT !.reader.audioUrl = Null, !.reader.selectedVoiceId = voiceId]
  ELSE rs

\* the user picks a voice: in the VoiceSelector of the visible StoryReader, or
\* (App.tsx) in App's own select, which has no onChange handler
SelectVoice ==
  /\ \E voiceId \in Voices :
       /\ userVoice' = voiceId
       /\ IF appCfg.app = "hidden3"
          THEN /\ reader.mounted /\ ~reader.isPlaying
               /\ Becomes(HandleVoiceSelect(Cur, voiceId))
          ELSE /\ appCfg.app = "hidden"
               /\ story /= Null
               /\ UNCHANGED <<reader, tts, simTimers, stopButtonPressed>>
  /\ UNCHANGED <<appPlaying, ttsFailed>>
  /\ FlowUnchanged
  /\ UNCHANGED <<geoVars, voiceVars>>

\* App.tsx handleStop: the flag is set, the reader's handleStop is called
\* through the ref, setIsPlaying(false), and the render that follows a change
\* of isPlaying remounts the keyed StoryReader
AppHandleStop ==
  /\ appCfg.app = "hidden"
  /\ story /= Null /\ reader.mounted
  /\ appPlaying' = FALSE
  /\ \E playOk \in BOOLEAN :
       IF appPlaying
       THEN Becomes(Remount(HandleStop([Cur EXCEPT !.stopPressed = TRUE], playOk, ttsFailed),
                            story, autoPlayStory, FALSE, ttsFailed))
       ELSE Becomes(HandleStop([Cur EXCEPT !.stopPressed = TRUE], playOk, ttsFailed))
  /\ UNCHANGED <<userVoice, ttsFailed>>
  /\ FlowUnchanged
  /\ UNCHANGED <<geoVars, voiceVars>>

\* App.tsx handleStop: setTimeout(() => { stopButtonPressed = false }, 1000)
StopFlagReset ==
  /\ stopButtonPressed
  /\ stopButtonPressed' = FALSE
  /\ UNCHANGED <<reader, tts, simTimers, appPlaying, userVoice, ttsFailed>>
  /\ FlowUnchanged
  /\ UNCHANGED <<geoVars, voiceVars>>

\* a StoryReader whose parent has mounted it with autoPlay = true and does not
\* render again
AutoReaderNext ==
  \/ TtsSettles
  \/ SimulatedPlayEnds
  \/ AudioEnded
  \/ PressStop
  \/ PressListen
  \/ SelectVoice
  \/ AppHandleStop
  \/ StopFlagReset

ReaderNext ==
  \/ HandleLocationSelect
  \/ HandleGenerateStory
  \/ StorySettles
  \/ QuerySettles
  \/ VideoSettles
  \/ AutoPlayTimer
  \/ PressListen
  \/ PressPlay
  \/ TtsSettles
  \/ SimulatedPlayEnds
  \/ AudioEnded
  \/ PressStop
  \/ SelectVoice

(***************************************************************************)
(* Part V: getAllVoices                                                    *)
(***************************************************************************)

\* the voice lists the ElevenLabs voices endpoint may answer with, as lists of
\* voice ids; the account's voices may change between two requests
VoiceLists == {<<>>, <<Rachel>>, <<Rachel, Sam>>}

\* the module after loading: let voicesCache = null
VoicesStart ==
  /\ voicesCache = None
  /\ voiceReqs = {}
  /\ voiceCalls = 0
  /\ voiceFirst = None
  /\ voiceLast = None

\* variant: an empty list counts as no cache
CacheHasVoices(cache) == IsSome(cache) /\ The(cache) /= <<>>

\* `voicesCache && ...`: null is falsy, every array is truthy, the empty one too
CacheTruthy(cache) == IsSome(cache)

\* what is remembered of a getAllVoices call when it returns
VoicesReturn(id, force, afterSuccess, fetched, failed, value, cacheAfter) ==
  Some([ call |-> id, force |-> force, afterSuccess |-> afterSuccess,
         fetched |-> fetched, failed |-> failed, value |-> value,
         cacheBefore |-> voicesCache, cacheAfter |-> cacheAfter ])

\* getAllVoices(forceRefresh): up to the return of the cached list or the
\* await of getVoices
GetAllVoices ==
  /\ voiceCalls < MaxVoiceCalls
  /\ voiceCalls' = voiceCalls + 1
  /\ \E forceRefresh \in BOOLEAN :
       IF CacheTruthy(voicesCache) /\ ~forceRefresh
       THEN /\ voiceLast' = VoicesReturn(voiceCalls + 1, forceRefresh, IsSome(voiceFirst),
                                         FALSE, FALSE, The(voicesCache), voicesCache)
            /\ UNCHANGED voiceReqs
       ELSE /\ voiceReqs' = voiceReqs \cup
                 {[id |-> voiceCalls + 1, force |-> forceRefresh,
                   afterSuccess |-> IsSome(voiceFirst)]}
            /\ UNCHANGED voiceLast
  /\ UNCHANGED <<voicesCache, voiceFirst>>
  /\ UNCHANGED <<geoVars, appVars>>

\* getVoices resolves with response.data.voices: getAllVoices stores and
\* returns the list
GetVoicesResolves ==
  \E r \in voiceReqs, voices \in VoiceLists :
    /\ voiceReqs' = voiceReqs \ {r}
    /\ voicesCache' = Some(voices)
    /\ voiceFirst' = IF IsSome(voiceFirst) THEN voiceFirst ELSE Some(voices)
    /\ voiceLast' = VoicesReturn(r.id, r.force, r.afterSuccess, TRUE, FALSE, voices,
                                 Some(voices))
    /\ UNCHANGED voiceCalls
    /\ UNCHANGED <<geoVars, appVars>>

\* getVoices rethrows the error of the request: getAllVoices catches it and
\* returns []
GetVoicesRejects ==
  \E r \in voiceReqs :
    /\ voiceReqs' = voiceReqs \ {r}
    /\ voiceLast' = VoicesReturn(r.id, r.force, r.afterSuccess, TRUE, TRUE, <<>>,
                                 voicesCache)
    /\ UNCHANGED <<voicesCache, voiceFirst, voiceCalls>>
    /\ UNCHANGED <<geoVars, appVars>>

VoicesNext == GetAllVoices \/ GetVoicesResolves \/ GetVoicesRejects

(***************************************************************************)
(* Specifications                                                          *)
(***************************************************************************)

\* useGeolocation alone, under every configuration of the hook
GeoInit ==
  /\ VoicesStart
  /\ geoCfg \in GeoConfigs
  /\ GeoStart
  /\ appCfg = [app |-> "echogo", stories |-> "echogo", music |-> "theme", net |-> "flaky"]
  /\ AppStart
  /\ ReaderStart

\* the generation flow alone, under every App and either fetchMusicForStory
AppInit ==
  /\ VoicesStart
  /\ appCfg \in {c \in AppConfigs : c.net = "flaky"}
  /\ AppStart
  /\ ReaderStart
  /\ geoCfg = [version |-> "echogo", device |-> "windowsChrome",
               options |-> [autoLocateOnMount |-> TRUE], hasGeolocation |-> TRUE]
  /\ GeoStart

AppSpec == AppInit /\ [][AppNext]_vars

\* some HTTP request of a generation flow settles
SomeRequestSettles ==
  GeocodeSettles \/ StorySettles \/ ThemeSettles \/ QuerySettles \/ VideoSettles

\* the proviso of C8: HTTP requests settle, so while a request is in flight
\* some request eventually settles
AppFairSpec == AppSpec /\ WF_vars(SomeRequestSettles)

\* the hidden-stories Apps with their StoryReader
ReaderInit ==
  /\ VoicesStart
  /\ appCfg \in {c \in AppConfigs : c.app /= "echogo" /\ c.music = "direct" /\ c.net = "reliable"}
  /\ AppStart
  /\ ReaderStart
  /\ geoCfg = [version |-> "hidden", device |-> "windowsChrome",
               options |-> [autoLocateOnMount |-> TRUE], hasGeolocation |-> TRUE]
  /\ GeoStart

ReaderSpec == ReaderInit /\ [][ReaderNext]_vars

GeoSpec == GeoInit /\ [][GeoNext]_vars

\* a StoryReader of either version, mounted with a story and autoPlay = true
AutoReaderInit ==
  /\ appCfg \in {c \in AppConfigs : c.app /= "echogo" /\ c.music = "direct" /\ c.net = "reliable"}
  /\ selectedLocation = None
  /\ story \in StoryContents
  /\ music = None
  /\ appLoading = FALSE
  /\ autoPlayStory = TRUE
  /\ flows = <<>>
  /\ inflight = {}
  /\ autoPlayTimers = 0
  /\ stopButtonPressed = FALSE
  /\ appPlaying = FALSE
  /\ userVoice = Null
  /\ ttsFailed = FALSE
  /\ reader = Remount([reader |-> NoReader, tts |-> {}, simTimers |-> 0,
                       stopPressed |-> FALSE], story, TRUE, FALSE, FALSE).reader
  /\ tts = Remount([reader |-> NoReader, tts |-> {}, simTimers |-> 0,
                    stopPressed |-> FALSE], story, TRUE, FALSE, FALSE).tts
  /\ simTimers = 0
  /\ geoCfg = [version |-> "hidden", device |-> "windowsChrome",
               options |-> [autoLocateOnMount |-> TRUE], hasGeolocation |-> TRUE]
  /\ GeoStart
  /\ VoicesStart

AutoReaderSpec == AutoReaderInit /\ [][AutoReaderNext]_vars

\* getAllVoices alone
VoicesInit ==
  /\ VoicesStart
  /\ appCfg = [app |-> "hidden", stories |-> "hidden", music |-> "direct", net |-> "flaky"]
  /\ AppStart
  /\ ReaderStart
  /\ geoCfg = [version |-> "hidden", device |-> "windowsChrome",
               options |-> [autoLocateOnMount |-> TRUE], hasGeolocation |-> TRUE]
  /\ GeoStart

VoicesSpec == VoicesInit /\ [][VoicesNext]_vars

\* the hidden-stories useGeolocation on every device, with and without
\* supplied options
DefaultsInit ==
  /\ VoicesStart
  /\ geoCfg \in DefaultsConfigs
  /\ GeoStart
  /\ appCfg = [app |-> "hidden", stories |-> "hidden", music |-> "direct", net |-> "flaky"]
  /\ AppStart
  /\ ReaderStart

DefaultsSpec == DefaultsInit /\ [][HiddenGeoNext]_vars

\* Timers fire once they are due, and (the proviso of C4) every fallback
\* request gets its success or error callback. The main and the cached
\* request may stay without a callback for ever.
GeoFairSpec ==
  /\ GeoSpec
  /\ WF_vars(Tick)
  /\ WF_vars(Watchdog)
  /\ WF_vars(FallbackSuccess \/ FallbackError)

(***************************************************************************)
(* Claims about useGeolocation                                             *)
(***************************************************************************)

\* C2: a call of getCurrentLocation made less than 2000 ms after the previous
\* call that started a geolocation request is throttled: it issues no
\* getCurrentPosition request, starts no watchdog timer and leaves position,
\* error, isLocating and lastRequestTime unchanged.
C2_CallWithinWindowIsThrottled ==
  [][ (/\ calls' = calls + 1
       /\ lastRequestTime /= NoTime
       /\ now > lastRequestTime
       /\ now - lastRequestTime < ThrottleMs)
      => UNCHANGED <<position, error, isLocating, lastRequestTime,
                     timers, primaryReqs, cachedReqs, fallbackReqs>> ]_vars

\* C3: in the hidden-stories version with maxRetries = N at most N fallback
\* requests are issued between one call of getCurrentLocation and the next.
C3_FallbacksCappedByMaxRetries ==
  geoCfg.version = "hidden" => fallbackIssued <= maxRetries

\* C4: once getCurrentLocation has set isLocating, isLocating eventually
\* becomes false again (given that fallback requests get their callback),
\* also when the main request never calls back.
C4_LocatingEnds == isLocating ~> ~isLocating

\* C4 witness: the watchdog has ended the locating of the last call while the
\* main request of that call is still without a callback
C4_WatchdogEndedLocating ==
  /\ calls >= 1
  /\ ~isLocating
  /\ error = ErrWatchdog
  /\ \E r \in primaryReqs : r.id = calls


\* C14: in the hidden-stories version, when the main request fails with code
\* PERMISSION_DENIED, whatever the message, no fallback request is issued and
\* the state becomes position = null, error = "Location permission denied.
\* Please enable location services.", isLocating = false.
C14_DeniedEndsWithoutFallback ==
  [][ \A r \in primaryReqs, message \in ErrorMessages :
        HiddenPrimaryErrorWith(r, PERMISSION_DENIED, message) =>
          /\ fallbackReqs' = fallbackReqs
          /\ position' = Null
          /\ error' = ErrDenied
          /\ isLocating' = FALSE ]_vars

\* C15: a watchdog timer that fires while isLocating is false leaves
\* position, error, isLocating and lastRequestTime unchanged and issues no
\* fallback request (a step that takes a due timer away and leaves the
\* requests of the calls as they are is the firing of that timer).
C15_IdleWatchdogChangesNothing ==
  [][ (/\ ~isLocating
       /\ \E t \in timers : now >= t.due /\ timers' = timers \ {t}
       /\ UNCHANGED <<primaryReqs, cachedReqs, calls, now>>)
      => UNCHANGED <<position, error, isLocating, lastRequestTime, fallbackReqs,
                     fallbackIssued>> ]_vars

\* C15, its case: in the echogo version with high accuracy the watchdog of the
\* second call has fired after a fallback request of the first call had ended
\* the locating: the main request of the second call is still without a
\* callback, its timer is gone, and no fallback request was issued and no
\* timeout reported
C15_WatchdogFiredWhileIdle ==
  /\ geoCfg.version = "echogo"
  /\ enableHighAccuracy
  /\ calls = 2
  /\ timers = {}
  /\ \E r \in primaryReqs : r.id = 2
  /\ ~isLocating
  /\ fallbackIssued = 0
  /\ error /= ErrWatchdog

\* C16: without navigator.geolocation a call of getCurrentLocation issues no
\* request and starts no timer; it sets error = "Geolocation is not supported
\* by your browser" and isLocating = false and leaves position and
\* lastRequestTime unchanged.
C16_UnsupportedSetsErrorOnly ==
  [][ (calls' = calls + 1 /\ ~geoCfg.hasGeolocation)
      => /\ error' = ErrUnsupported
         /\ isLocating' = FALSE
         /\ UNCHANGED <<position, lastRequestTime, timers, primaryReqs, cachedReqs,
                        fallbackReqs>> ]_vars

\* C16, its case: getCurrentLocation has been called twice in a browser
\* without navigator.geolocation
C16_CalledWithoutGeolocation ==
  /\ ~geoCfg.hasGeolocation
  /\ calls = 2
  /\ error = ErrUnsupported
  /\ ~isLocating
  /\ lastRequestTime = NoTime
  /\ timers = {} /\ primaryReqs = {} /\ cachedReqs = {} /\ fallbackReqs = {}

\* C17: in the echogo version isLocating is true for as long as a fallback
\* request issued by the current getCurrentLocation call awaits its callback.
C17_LocatingWhileFallbackPending ==
  geoCfg.version = "echogo" =>
    ((\E r \in fallbackReqs : r.id = calls) => isLocating)

\* C18: in the hidden-stories version, once a request of a getCurrentLocation
\* call has delivered a position, no later callback of that call sets position
\* back to null or sets an error. Stated for the first call: while it is the
\* only call, every position was delivered by it and every callback is its own.
C18_DeliveredPositionStays ==
  [][ (geoCfg.version = "hidden" /\ calls = 1 /\ calls' = 1 /\ position /= Null)
      => (position' /= Null /\ error' = Null) ]_vars

\* is the device an Apple device: iOS, or macOS with Safari
OnAppleDevice ==
  \/ Platform(geoCfg.device) = "ios"
  \/ Platform(geoCfg.device) = "macos" /\ Browser(geoCfg.device) = "safari"

\* the value C13 gives an option: the supplied one, else the default of the device
C13Option(name, onApple, onOther) ==
  IF name \in DOMAIN geoCfg.options THEN geoCfg.options[name]
  ELSE IF OnAppleDevice THEN onApple ELSE onOther

\* C13: the hidden-stories hook requests the position with the supplied
\* enableHighAccuracy, timeout and maximumAge, and where one is not supplied
\* with false, 30000 ms and 120000 ms on an Apple device and with true,
\* 10000 ms and 0 on every other device; the watchdog is set by that timeout.
C13_DefaultsByDevice ==
  geoCfg.version = "hidden" =>
    /\ \A r \in primaryReqs :
         /\ r.options.enableHighAccuracy = C13Option("enableHighAccuracy", FALSE, TRUE)
         /\ r.options.timeout = C13Option("timeout", 30000, 10000)
         /\ r.options.maximumAge = C13Option("maximumAge", 120000, 0)
    /\ \A t \in timers :
         t.due = t.requestTime + C13Option("timeout", 30000, 10000) + 1000

\* C13, its case: on an iPad whose Safari sends the user agent of a Mac the
\* main request is issued with the supplied timeout and the Apple defaults of
\* the two options not supplied
C13_AppleDefaultsAndSuppliedTimeout ==
  /\ geoCfg.version = "hidden"
  /\ geoCfg.device = "ipadSafari"
  /\ DOMAIN geoCfg.options = {"autoLocateOnMount", "timeout"}
  /\ \E r \in primaryReqs :
       r.options = [enableHighAccuracy |-> FALSE, timeout |-> 2000, maximumAge |-> 120000]

(***************************************************************************)
(* Claims about the generation flow                                        *)
(***************************************************************************)

\* the requests of a flow that wait for their response
PendingOf(f) == {r \in inflight : r.flow = f}

C6_LocalStoryNeverRejects ==
  \A f \in DOMAIN flows :
    /\ "fetchLocalStory" \notin flows[f].rejected
    /\ flows[f].failed \cap {"geocode", "story"} /= {} =>
         /\ flows[f].localStory = NoFacts
         /\ flows[f].storyArg = NoFacts
         /\ flows[f].sent[FirstMusicKind] = 1
    /\ flows[f].pc \notin {"geocode", "story", "gone"} =>
         /\ flows[f].localStory /= Null
         /\ flows[f].sent[FirstMusicKind] = 1

\* C6, its case: the story request has failed and the first music request,
\* for the fixed text, is in flight
C6_MusicRequestedForNoFacts ==
  \E r \in inflight :
    /\ r.kind = FirstMusicKind
    /\ "story" \in flows[r.flow].failed
    /\ r.payload.story = NoFacts
    /\ story = NoFacts

\* C7: fetchMusicForStory never rejects; in every result videoUrl is null
\* exactly when videoId is null and is otherwise the watch URL of videoId; and
\* when a request failed or the search returned no item both are null.
C7_VideoUrlIffVideoId ==
  \A f \in DOMAIN flows :
    /\ "fetchMusicForStory" \notin flows[f].rejected
    /\ (flows[f].pc \in {"done", "gone"} /\ flows[f].rejected = {}) =>
         IsSome(flows[f].result)
    /\ IsSome(flows[f].result) =>
         /\ The(flows[f].result).videoUrl = None <=> The(flows[f].result).videoId = Null
         /\ The(flows[f].result).videoId /= Null =>
              The(flows[f].result).videoUrl = WatchUrl(The(flows[f].result).videoId)
         /\ (flows[f].failed \cap {"theme", "query", "video"} /= {} \/ flows[f].noItem) =>
              /\ The(flows[f].result).videoId = Null
              /\ The(flows[f].result).videoUrl = None

\* C7, its case: one flow got a video with its watch URL, another flow got no
\* item from the search
C7_ResultsWithAndWithoutVideo ==
  /\ \E f \in DOMAIN flows :
       /\ IsSome(flows[f].result)
       /\ The(flows[f].result).videoId = "vid1"
       /\ The(flows[f].result).videoUrl = <<"https://www.youtube.com/watch?v=", "vid1">>
  /\ \E f \in DOMAIN flows :
       /\ IsSome(flows[f].result)
       /\ flows[f].noItem
       /\ The(flows[f].result).videoUrl = None

\* a generation flow is under way
FlowRunning == \E f \in DOMAIN flows : flows[f].pc \notin {"done", "gone"}

\* C8: every generation flow eventually finishes with isLoading = false, given
\* that every HTTP request settles: whenever a flow is under way, eventually
\* every flow started has finished, after whatever failures, and isLoading is
\* false.
C8_FlowFinishesNotLoading == FlowRunning ~> (~FlowRunning /\ ~appLoading)

\* C8, its case: a flow whose video search failed has finished, and isLoading
\* is false
C8_FailedFlowFinished ==
  \E f \in DOMAIN flows :
    /\ flows[f].pc = "done"
    /\ "video" \in flows[f].failed
    /\ ~appLoading

\* C9: the place named in the prompt that hidden-stories' fetchLocalStory
\* builds is the address passed in or, when no address is passed, a place at
\* the given latitude and longitude.
C9_PromptNamesSelectedPlace ==
  appCfg.stories = "hidden" =>
    \A r \in inflight :
      r.kind = "story" =>
        IF flows[r.flow].address /= Null
        THEN r.payload.place = flows[r.flow].address
        ELSE r.payload.place \in PlacesAt(flows[r.flow].loc)

(***************************************************************************)
(* Claims about the StoryReader                                            *)
(***************************************************************************)

\* C5: no retry: no story, music-query, video-search or text-to-speech request
\* is issued again after it failed, until the user triggers a new generation
\* or presses play. A flow issues each of its requests at most once, and no
\* narration request is issued while an earlier one has failed and the user
\* has not asked again.
C5_NoRequestReissued ==
  /\ \A f \in DOMAIN flows : \A k \in Kinds : flows[f].sent[k] <= 1
  /\ \A r \in tts : ~r.afterFailure

\* C10: once the user has selected a voice, every narration request issued
\* afterwards uses that voice, until the user selects another one.
C10_RequestsUseSelectedVoice ==
  \A r \in tts : r.wanted /= Null => r.voice = r.wanted


\* C12: a StoryReader mounted with autoPlay = true starts narration by itself
\* once, when it mounts, and not again after playback has ended, after the
\* user has stopped it or after the speech request has failed: its auto-play
\* effect starts at most one narration.
C12_AutoPlayStartsOnce ==
  (reader.mounted /\ reader.autoPlay) => reader.autoStarts <= 1

(***************************************************************************)
(* Claims about getAllVoices                                               *)
(***************************************************************************)

\* C11, as amended: once a fetch has succeeded, every later call with
\* forceRefresh = false returns the list held in the cache, the one the latest
\* successful fetch stored, without calling the voices endpoint; a failed
\* fetch resolves to the empty list and leaves the cache as it was.
C11_LaterCallsReturnCache ==
  /\ IsSome(voiceFirst) <=> IsSome(voicesCache)
  /\ IsSome(voiceLast) =>
       /\ (The(voiceLast).afterSuccess /\ ~The(voiceLast).force) =>
            /\ ~The(voiceLast).fetched
            /\ The(voiceLast).value = The(The(voiceLast).cacheBefore)
            /\ The(voiceLast).cacheAfter = The(voiceLast).cacheBefore
       /\ The(voiceLast).failed =>
            /\ The(voiceLast).value = <<>>
            /\ The(voiceLast).cacheAfter = The(voiceLast).cacheBefore
       /\ voicesCache = The(voiceLast).cacheAfter

\* C11, its case: after a successful fetch of the empty list and a refresh
\* that fetched another list, a call with forceRefresh = false has returned
\* the cached list without a request
C11_CachedListReturned ==
  /\ voiceFirst = Some(<<>>)
  /\ IsSome(voiceLast)
  /\ ~The(voiceLast).force
  /\ The(voiceLast).afterSuccess
  /\ ~The(voiceLast).fetched
  /\ The(voiceLast).value = <<Rachel>>

\* C11, as stated: once a fetch has succeeded, every later call with
\* forceRefresh = false returns the list of that first successful fetch
\* without calling the voices endpoint; a failed fetch resolves to the empty
\* list and leaves the cache as it was.
C11_LaterCallsReturnFirstList ==
  IsSome(voiceLast) =>
    /\ (The(voiceLast).afterSuccess /\ ~The(voiceLast).force) =>
         /\ ~The(voiceLast).fetched
         /\ The(voiceLast).value = The(voiceFirst)
    /\ The(voiceLast).failed =>
         /\ The(voiceLast).value = <<>>
         /\ The(voiceLast).cacheAfter = The(voiceLast).cacheBefore

=============================================================================
